---- MODULE Spec2Model ----
(***************************************************************************)
(* A model of the request execution pipeline of vscode-restclient:         *)
(*   HttpClient.send / getHeaderValue / getResponseRawHeaderNames /        *)
(*   ignoreProxy                 (src/src/httpClient.ts)                   *)
(*   CurlRequestParser.parseHttpRequest   (src/unnamed/part_000)           *)
(*                                                                         *)
(* JavaScript strings are sequences of symbols.  A symbol stands for a     *)
(* piece of text that holds neither a blank nor a colon, except the        *)
(* symbols " " and ":" themselves, and no symbol is a concatenation of     *)
(* other symbols, so two sequences are equal exactly when the strings      *)
(* they stand for are equal.  null/undefined is the one-symbol sequence    *)
(* Null, whose symbol occurs in no string.  Records are written with their  *)
(* fields in alphabetical order.                                           *)
(***************************************************************************)
EXTENDS Integers, Sequences, FiniteSets, TLC

\* The fields of the records of the model.
Fields ==
    [H : {}, L : {}, X : {}, announced : {}, array : {}, auth : {},
     body : {}, bodySizeInBytes : {}, bodyStream : {}, bytes : {},
     called : {}, charset : {}, compressed : {}, d : {}, data : {},
     dataBinary : {}, defaultUserAgent : {}, error : {},
     excludeHostsForProxy : {}, given : {}, header : {}, headers : {},
     headersSizeInBytes : {}, hostname : {}, id : {}, key : {}, kind : {},
     lines : {}, location : {}, message : {}, method : {}, n : {},
     pass : {}, port : {}, positional : {}, proxy : {},
     proxyStrictSSL : {}, rawBody : {}, rawHeaders : {}, request : {},
     requestUrl : {}, response : {}, sendImmediately : {}, set : {},
     statusCode : {}, strictSSL : {}, text : {}, threw : {}, u : {},
     url : {}, user : {}, value : {}]

VARIABLES
    settings,       \* this._settings: the RestClientSettings snapshot
    pc,             \* per send call: state of the promise send returns
    httpRequest,    \* per send call: the HttpRequest argument, as passed
    options,        \* per send call: the options object handed to request()
    bypass,         \* per send call: what ignoreProxy returned at line 68
    size,           \* the size counter of lines 80, 148 (see SizeSlot)
    headersSize,    \* per send call: the headersSize counter of lines 81, 152
    dispatched,     \* per send call: number of request(options, ...) calls made
    delivered,      \* per send call: bytes the transport emitted as 'data' before completing
    events,         \* per send call: number of 'data'/'response' events emitted
    completion,     \* per send call: the (error, response, body) the callback got
    settled,        \* per send call: number of resolve()/reject() invocations
    result,         \* per send call: what the promise settled with
    curlArgs,       \* parsedArguments (yargs' argv) of the last parseHttpRequest
    curlRequest     \* the HttpRequest the last parseHttpRequest returned

vars == <<settings, pc, httpRequest, options, bypass, size, headersSize,
          dispatched, delivered, events, completion, settled, result,
          curlArgs, curlRequest>>

sendVars == <<settings, pc, httpRequest, options, bypass, size, headersSize,
              dispatched, delivered, events, completion, settled, result>>

(***************************************************************************)
(* Bounds of the model.                                                    *)
(***************************************************************************)
MaxCalls == 2       \* send invocations that may be in flight together
MaxEvents == 2      \* 'data' and 'response' events the transport emits per call
MaxChunkLen == 2    \* largest data.length of one chunk
MaxExcludes == 2    \* entries of settings.excludeHostsForProxy
MaxAuthLen == 7     \* symbols of an Authorization header value
MaxHeaders == 2     \* headers of a request, and of a response on the wire
MaxMsgLen == 3      \* symbols of a transport error's message

Calls == 1..MaxCalls

(***************************************************************************)
(* JavaScript values and string functions.                                 *)
(***************************************************************************)
Null == <<"<null>">>
NumberZero == <<"<0>">>

\* JavaScript truthiness of a string-or-null-or-number value.
Truthy(v) == v # Null /\ v # <<>> /\ v # NumberZero

LowerChar(ch) ==
    CASE ch = "A" -> "a"
      [] ch = "B" -> "b"
      [] ch = "User-Agent" -> "user-agent"
      [] ch = "USER-AGENT" -> "user-agent"
      [] ch = "Authorization" -> "authorization"
      [] ch = "AUTHORIZATION" -> "authorization"
      [] ch = "Content-Type" -> "content-type"
      [] ch = "X-Custom-Id" -> "x-custom-id"
      [] ch = "X-CUSTOM-ID" -> "x-custom-id"
      [] ch = "Accept" -> "accept"
      [] ch = "Basic" -> "basic"
      [] ch = "Digest" -> "digest"
      [] OTHER -> ch

toLowerCase(s) == [i \in 1..Len(s) |-> LowerChar(s[i])]

\* String.prototype.indexOf(ch): 0-based, -1 when absent.
indexOf(s, ch) ==
    IF \E i \in 1..Len(s) : s[i] = ch
    THEN (CHOOSE i \in 1..Len(s) : s[i] = ch /\ \A j \in 1..(i - 1) : s[j] # ch) - 1
    ELSE -1

\* String.prototype.substr(start, length) for start >= 0; a length <= 0 gives "".
substr(s, start, length) ==
    IF length <= 0 THEN <<>>
    ELSE SubSeq(s, start + 1, IF start + length < Len(s) THEN start + length ELSE Len(s))

\* String.prototype.substr(start) for start >= 0.
substrFrom(s, start) == SubSeq(s, start + 1, Len(s))

\* String.prototype.trim(): blanks are the model's only white space.
trim(s) ==
    IF \A i \in 1..Len(s) : s[i] = " " THEN <<>>
    ELSE LET first == CHOOSE i \in 1..Len(s) : s[i] # " " /\ \A j \in 1..(i - 1) : s[j] = " "
             last == CHOOSE i \in 1..Len(s) : s[i] # " " /\ \A j \in (i + 1)..Len(s) : s[j] = " "
         IN SubSeq(s, first, last)

\* String.prototype.split(sep) for a one-symbol separator.
RECURSIVE split(_, _)
split(s, sep) ==
    IF \A i \in 1..Len(s) : s[i] # sep THEN <<s>>
    ELSE LET i == CHOOSE k \in 1..Len(s) : s[k] = sep /\ \A j \in 1..(k - 1) : s[j] # sep
         IN <<SubSeq(s, 1, i - 1)>> \o split(SubSeq(s, i + 1, Len(s)), sep)

\* String.prototype.startsWith(prefix).
startsWith(s, prefix) ==
    Len(s) >= Len(prefix) /\ SubSeq(s, 1, Len(prefix)) = prefix

\* Array.from(new Set(list)): first occurrences, in order.
RECURSIVE uniq(_)
uniq(list) ==
    IF list = <<>> THEN <<>>
    ELSE LET front == SubSeq(list, 1, Len(list) - 1)
             lastE == list[Len(list)]
         IN IF \E i \in 1..Len(front) : front[i] = lastE
            THEN uniq(front)
            ELSE Append(uniq(front), lastE)

(***************************************************************************)
(* Header mappings: a JavaScript object with string keys is the sequence   *)
(* of its [key, value] entries in insertion order, keys distinct.          *)
(***************************************************************************)
UndefinedHeaders == <<[key |-> Null, value |-> Null]>>

HasKey(headers, k) == \E i \in 1..Len(headers) : headers[i].key = k

\* headers[k] (undefined when there is no such key).
Get(headers, k) ==
    IF HasKey(headers, k)
    THEN headers[CHOOSE i \in 1..Len(headers) : headers[i].key = k].value
    ELSE Null

\* headers[k] = v.
Put(headers, k, v) ==
    IF HasKey(headers, k)
    THEN [i \in 1..Len(headers) |->
            IF headers[i].key = k THEN [key |-> k, value |-> v] ELSE headers[i]]
    ELSE Append(headers, [key |-> k, value |-> v])

Keys(headers) == {headers[i].key : i \in 1..Len(headers)}

\* HttpClient.getHeaderValue
getHeaderValue(headers, headerName) ==
    IF headers # UndefinedHeaders
          /\ \E i \in 1..Len(headers) : toLowerCase(headers[i].key) = toLowerCase(headerName)
    THEN headers[CHOOSE i \in 1..Len(headers) :
                    /\ toLowerCase(headers[i].key) = toLowerCase(headerName)
                    /\ \A j \in 1..(i - 1) :
                          toLowerCase(headers[j].key) # toLowerCase(headerName)].value
    ELSE Null

(***************************************************************************)
(* HttpClient.ignoreProxy.  requestUrl is url.parse's result: hostname and *)
(* port (Null when the URL names none).                                    *)
(***************************************************************************)
UndefinedList == <<Null>>

RECURSIVE ignoreProxyLoop(_, _, _, _)
ignoreProxyLoop(list, index, hostName, port) ==
    IF index > Len(list) THEN FALSE
    ELSE LET eh == list[index]
             urlParts == split(eh, ":")
         IN IF ~Truthy(port)
            THEN IF Len(urlParts) = 1 /\ urlParts[1] = hostName
                 THEN TRUE
                 ELSE ignoreProxyLoop(list, index + 1, hostName, port)
            ELSE IF Len(urlParts) = 1 /\ urlParts[1] = hostName
                 THEN TRUE
                 ELSE IF Len(urlParts) = 2 /\ urlParts[1] = hostName /\ urlParts[2] = port
                      THEN TRUE
                      ELSE ignoreProxyLoop(list, index + 1, hostName, port)

\* ignoreProxy with the lowercasing of the entries (line 221) forgotten.
ignoreProxyCaseSensitive(requestUrl, excludeHostsForProxy) ==
    IF excludeHostsForProxy = UndefinedList \/ Len(excludeHostsForProxy) = 0
    THEN FALSE
    ELSE ignoreProxyLoop(uniq(excludeHostsForProxy), 1,
                         toLowerCase(requestUrl.hostname), requestUrl.port)

ignoreProxy(requestUrl, excludeHostsForProxy) ==
    IF excludeHostsForProxy = UndefinedList \/ Len(excludeHostsForProxy) = 0
    THEN FALSE
    ELSE LET hostName == toLowerCase(requestUrl.hostname)
             port == requestUrl.port
             excludeHostsProxyList ==
                 uniq([i \in 1..Len(excludeHostsForProxy) |->
                          toLowerCase(excludeHostsForProxy[i])])
         IN ignoreProxyLoop(excludeHostsProxyList, 1, hostName, port)

(***************************************************************************)
(* HttpClient.send, up to the dispatch (lines 28-82).                      *)
(* The options that no claim reads (url, method, body, encoding, time,     *)
(* timeout, gzip, followRedirect, jar, forever and the certificate fields  *)
(* of lines 60-65) are left out of the options record.                     *)
(***************************************************************************)
NoAuth == [set |-> FALSE]

\* detectAuth with the trim() of line 49 forgotten.
detectAuthNoTrim(headers) ==
    LET authorization == getHeaderValue(headers, <<"Authorization">>)
    IN IF ~Truthy(authorization) THEN NoAuth
       ELSE LET start == indexOf(authorization, " ")
                scheme == substr(authorization, 0, start)
            IN IF scheme = <<"Digest">> \/ scheme = <<"Basic">>
               THEN LET params == split(substrFrom(authorization, start), " ")
                    IN IF Len(params) = 2
                       THEN [pass |-> params[2],
                             sendImmediately |-> (scheme = <<"Basic">>),
                             set |-> TRUE,
                             user |-> params[1]]
                       ELSE NoAuth
               ELSE NoAuth

\* lines 43-58: options.auth
detectAuth(headers) ==
    LET authorization == getHeaderValue(headers, <<"Authorization">>)
    IN IF ~Truthy(authorization) THEN NoAuth
       ELSE LET start == indexOf(authorization, " ")
                scheme == substr(authorization, 0, start)
            IN IF scheme = <<"Digest">> \/ scheme = <<"Basic">>
               THEN LET params == split(trim(substrFrom(authorization, start)), " ")
                    IN IF Len(params) = 2
                       THEN [pass |-> params[2],
                             sendImmediately |-> (scheme = <<"Basic">>),
                             set |-> TRUE,
                             user |-> params[1]]
                       ELSE NoAuth
               ELSE NoAuth

\* line 68: options.proxy
proxyOption(ignored, proxy) == IF ignored THEN Null ELSE proxy

\* strictSSLOption without the test of the proxy in effect.
strictSSLAlways(proxy, proxyStrictSSL) == proxyStrictSSL

\* line 69: options.strictSSL
strictSSLOption(proxy, proxyStrictSSL) ==
    IF Truthy(proxy) /\ Len(proxy) > 0 THEN proxyStrictSSL ELSE FALSE

\* lines 71-73: options.headers = httpRequest.headers = {} when there are none
ensureHeaders(headers) == IF headers = UndefinedHeaders THEN <<>> ELSE headers

\* lines 75-78: add default user agent if not specified
addUserAgent(headers, defaultUserAgent) ==
    IF ~Truthy(getHeaderValue(headers, <<"User-Agent">>))
    THEN Put(headers, <<"User-Agent">>, defaultUserAgent)
    ELSE headers

\* size as a field of the client, shared by its send invocations.
SharedSizeSlot(c) == 1

\* lines 80, 147-149: size is a local of the send invocation, so every
\* invocation has a counter of its own.
SizeSlot(c) == c

NoOptions == [set |-> FALSE]
NoCompletion == [called |-> FALSE]
NoResult == [kind |-> "none"]
NoResponse == [announced |-> FALSE]
NoError == [id |-> "none", message |-> Null]

\* request(options, callback): the one outbound call of an invocation.
Dispatch(c) == dispatched' = [dispatched EXCEPT ![c] = @ + 1]

Send(c, req) ==
    /\ pc[c] = "idle"
    /\ LET ignored == ignoreProxy(req.url, settings.excludeHostsForProxy)
           proxy == proxyOption(ignored, settings.proxy)
       IN /\ bypass' = [bypass EXCEPT ![c] = ignored]
          /\ options' = [options EXCEPT ![c] =
                [auth |-> detectAuth(req.headers),
                 headers |-> addUserAgent(ensureHeaders(req.headers),
                                          settings.defaultUserAgent),
                 proxy |-> proxy,
                 set |-> TRUE,
                 strictSSL |-> strictSSLOption(proxy, settings.proxyStrictSSL)]]
    /\ httpRequest' = [httpRequest EXCEPT ![c] = req]
    /\ size' = [size EXCEPT ![SizeSlot(c)] = 0]
    /\ headersSize' = [headersSize EXCEPT ![c] = 0]
    /\ Dispatch(c)
    /\ pc' = [pc EXCEPT ![c] = "pending"]
    /\ UNCHANGED <<settings, delivered, events, completion, settled, result,
                   curlArgs, curlRequest>>

(***************************************************************************)
(* Initial states: a client constructed with a settings snapshot, no send  *)
(* call made yet.                                                          *)
(***************************************************************************)
NoRequest == [set |-> FALSE]
NoCurl == [set |-> FALSE]

InitWith(S) ==
    /\ settings \in S
    /\ pc = [c \in Calls |-> "idle"]
    /\ httpRequest = [c \in Calls |-> NoRequest]
    /\ options = [c \in Calls |-> NoOptions]
    /\ bypass = [c \in Calls |-> FALSE]
    /\ size = [c \in Calls |-> 0]
    /\ headersSize = [c \in Calls |-> 0]
    /\ dispatched = [c \in Calls |-> 0]
    /\ delivered = [c \in Calls |-> 0]
    /\ events = [c \in Calls |-> [n |-> 0, response |-> NoResponse]]
    /\ completion = [c \in Calls |-> NoCompletion]
    /\ settled = [c \in Calls |-> 0]
    /\ result = [c \in Calls |-> NoResult]
    /\ curlArgs = NoCurl
    /\ curlRequest = NoCurl

\* Sequences over S of length at most n.
SeqsUpTo(S, n) == UNION {[1..k -> S] : k \in 0..n}

DefaultSettings ==
    [defaultUserAgent |-> <<"vscode-restclient">>,
     excludeHostsForProxy |-> <<>>,
     proxy |-> Null,
     proxyStrictSSL |-> FALSE]

PlainUrl == [hostname |-> <<"a">>, port |-> Null]

PlainRequest == [headers |-> UndefinedHeaders, url |-> PlainUrl]

(***************************************************************************)
(* SpecProxy: send under every proxy setting, exclusion list and URL.      *)
(***************************************************************************)
Hostnames == {<<"a">>, <<"A">>, <<"b">>}
Ports == {Null, <<"8">>, <<"9">>}
Urls == [hostname : Hostnames, port : Ports]

ExcludeEntries ==
    {<<"a">>, <<"A">>, <<"b">>, <<"a", ":", "8">>, <<"A", ":", "8">>,
     <<"b", ":", "9">>, <<"a", ":">>, <<"a", ":", "8", ":", "9">>, <<"8">>}

ExcludeLists == {UndefinedList} \cup SeqsUpTo(ExcludeEntries, MaxExcludes)

ProxySettings ==
    [defaultUserAgent : {<<"vscode-restclient">>},
     excludeHostsForProxy : ExcludeLists,
     proxy : {Null, <<>>, <<"http://proxy">>},
     proxyStrictSSL : BOOLEAN]

InitProxy == InitWith(ProxySettings)

NextProxy ==
    pc[1] = "idle" /\ \E u \in Urls : Send(1, [headers |-> UndefinedHeaders, url |-> u])

SpecProxy == InitProxy /\ [][NextProxy]_vars
(***************************************************************************)
(* C1, C6: the proxy decision.                                             *)
(***************************************************************************)
Sent(c) == pc[c] # "idle"

EntryHasPort(entry) == \E i \in 1..Len(entry) : entry[i] = ":"
EntryHost(entry) == SubSeq(entry, 1, indexOf(entry, ":"))
EntryPort(entry) == SubSeq(entry, indexOf(entry, ":") + 2, Len(entry))

\* The rule of the claim, entry by entry.
EntryExcludes(entry, requestUrl) ==
    \/ ~EntryHasPort(entry) /\ entry = toLowerCase(requestUrl.hostname)
    \/ /\ EntryHasPort(entry)
       /\ requestUrl.port # Null
       /\ EntryHost(entry) = toLowerCase(requestUrl.hostname)
       /\ EntryPort(entry) = requestUrl.port

ListExcludes(list, requestUrl) ==
    /\ list # UndefinedList
    /\ Len(list) > 0
    /\ \E i \in 1..Len(list) : EntryExcludes(toLowerCase(list[i]), requestUrl)

\* C1: ignoreProxy returns true exactly when the exclusion list is non-empty
\* and some lowercased entry either has no port and equals the request's
\* lowercase hostname (whether or not the request has a port), or has a port
\* and both its hostname and its port equal the request's; an empty or absent
\* list gives false.
C1_IgnoreProxyRule ==
    \A c \in Calls : Sent(c) =>
        (bypass[c] = ListExcludes(settings.excludeHostsForProxy, httpRequest[c].url))

\* C1 witness: a bypass decided by a host:port entry alone, for a request whose
\* hostname is written in upper case.
C1_Witness ==
    \E c \in Calls :
        /\ Sent(c)
        /\ bypass[c]
        /\ httpRequest[c].url.hostname = <<"A">>
        /\ httpRequest[c].url.port = <<"8">>
        /\ \A i \in 1..Len(settings.excludeHostsForProxy) :
              EntryHasPort(settings.excludeHostsForProxy[i])

\* C6: options.proxy is disabled when ignoreProxy says bypass, whatever the
\* settings' proxy, and is the settings' proxy otherwise; options.strictSSL is
\* the settings' proxyStrictSSL when the proxy in effect is non-empty and false
\* in every other case.
C6_ProxyAndStrictSSL ==
    \A c \in Calls : Sent(c) =>
        /\ bypass[c] => options[c].proxy = Null
        /\ ~bypass[c] => options[c].proxy = settings.proxy
        /\ (options[c].proxy # Null /\ options[c].proxy # <<>>)
              => options[c].strictSSL = settings.proxyStrictSSL
        /\ (options[c].proxy = Null \/ options[c].proxy = <<>>)
              => options[c].strictSSL = FALSE

\* C6 witness: a bypassed request under a configured proxy with strict TLS on.
C6_Witness ==
    \E c \in Calls :
        /\ Sent(c)
        /\ bypass[c]
        /\ settings.proxy = <<"http://proxy">>
        /\ settings.proxyStrictSSL
        /\ options[c].proxy = Null
        /\ options[c].strictSSL = FALSE
(***************************************************************************)
(* SpecAuth: send under every Authorization header value.                  *)
(***************************************************************************)
AuthSymbols == {"Basic", "Digest", " ", "u"}
AuthValues == SeqsUpTo(AuthSymbols, MaxAuthLen)
AuthKeys == {<<"Authorization">>, <<"authorization">>}

AuthRequests ==
    {[headers |-> UndefinedHeaders, url |-> PlainUrl]}
    \cup {[headers |-> <<[key |-> k, value |-> v]>>, url |-> PlainUrl] :
             k \in AuthKeys, v \in AuthValues}

InitAuth == InitWith({DefaultSettings})

NextAuth == pc[1] = "idle" /\ \E req \in AuthRequests : Send(1, req)

SpecAuth == InitAuth /\ [][NextAuth]_vars

(***************************************************************************)
(* C2: transport credentials from the Authorization header.                *)
(***************************************************************************)
NonBlanks(v) == {i \in 2..Len(v) : v[i] # " "}
Lowest(S) == CHOOSE i \in S : \A j \in S : i <= j
Highest(S) == CHOOSE i \in S : \A j \in S : j <= i

\* What follows the scheme and its blank, without the blanks around it, is
\* two components with one blank between them.
IsShorthand(v) ==
    /\ Len(v) >= 2
    /\ v[1] \in {"Basic", "Digest"}
    /\ v[2] = " "
    /\ NonBlanks(v) # {}
    /\ Cardinality({i \in Lowest(NonBlanks(v))..Highest(NonBlanks(v)) : v[i] = " "}) = 1

ShorthandBlank(v) ==
    CHOOSE i \in Lowest(NonBlanks(v))..Highest(NonBlanks(v)) : v[i] = " "

\* The request's Authorization value: that of the first key equal to
\* Authorization when case is ignored.
AuthorizationOf(headers) ==
    LET hits == {i \in 1..Len(headers) :
                    toLowerCase(headers[i].key) = <<"authorization">>}
    IN IF headers = UndefinedHeaders \/ hits = {} THEN Null
       ELSE headers[Lowest(hits)].value

\* C2: send sets transport credentials exactly when the Authorization header,
\* found whatever its case, is the scheme Basic or Digest followed by exactly
\* two space-separated components; user is the first, pass the second, and
\* sendImmediately is true for Basic only.  In every case the headers sent
\* hold the request's headers unchanged.
C2_AuthShorthand ==
    \A c \in Calls : Sent(c) =>
        LET given == httpRequest[c].headers
            v == AuthorizationOf(given)
        IN /\ (v # Null /\ IsShorthand(v)) =>
                /\ options[c].auth.set
                /\ options[c].auth.user =
                      SubSeq(v, Lowest(NonBlanks(v)), ShorthandBlank(v) - 1)
                /\ options[c].auth.pass =
                      SubSeq(v, ShorthandBlank(v) + 1, Highest(NonBlanks(v)))
                /\ options[c].auth.sendImmediately = (v[1] = "Basic")
           /\ (v = Null \/ ~IsShorthand(v)) => options[c].auth = NoAuth
           /\ given # UndefinedHeaders =>
                \A i \in 1..Len(given) : options[c].headers[i] = given[i]

\* C2 witness: a Digest shorthand under a lowercase header name.
C2_Witness ==
    \E c \in Calls :
        /\ Sent(c)
        /\ httpRequest[c].headers =
              <<[key |-> <<"authorization">>, value |-> <<"Digest", " ", "u", " ", "u", "u">>]>>
        /\ options[c].auth.set
        /\ options[c].auth.user = <<"u">>
        /\ options[c].auth.pass = <<"u", "u">>
        /\ ~options[c].auth.sendImmediately
(***************************************************************************)
(* SpecUserAgent: send under every small header mapping that holds at most *)
(* one key per case-insensitive name.                                      *)
(***************************************************************************)
UserAgentKeys ==
    {<<"User-Agent">>, <<"user-agent">>, <<"USER-AGENT">>, <<"Accept">>, <<"Content-Type">>}
UserAgentValues == {<<>>, <<"curl/7">>, <<"text/plain">>}

UserAgentMappings ==
    {h \in SeqsUpTo([key : UserAgentKeys, value : UserAgentValues], MaxHeaders) :
        \A i, j \in 1..Len(h) :
            toLowerCase(h[i].key) = toLowerCase(h[j].key) => i = j}

UserAgentRequests ==
    {[headers |-> h, url |-> PlainUrl] : h \in UserAgentMappings \cup {UndefinedHeaders}}

UserAgentSettings ==
    [defaultUserAgent : {<<"vscode-restclient">>, <<"custom-agent">>},
     excludeHostsForProxy : {<<>>},
     proxy : {Null},
     proxyStrictSSL : {FALSE}]

InitUserAgent == InitWith(UserAgentSettings)

NextUserAgent == pc[1] = "idle" /\ \E req \in UserAgentRequests : Send(1, req)

SpecUserAgent == InitUserAgent /\ [][NextUserAgent]_vars

(***************************************************************************)
(* C5: the default User-Agent.                                             *)
(***************************************************************************)
UserAgentKeysOf(headers) ==
    {i \in 1..Len(headers) : toLowerCase(headers[i].key) = <<"user-agent">>}

\* C5: the headers dispatched hold a User-Agent header; the settings' default
\* is added only if the request mapping has no key equal to User-Agent when
\* case is ignored; when the request has one, in any casing, no key is added
\* or changed; so the dispatched headers never hold two keys that are equal to
\* User-Agent when case is ignored.
C5_DefaultUserAgent ==
    \A c \in Calls : Sent(c) =>
        LET given == IF httpRequest[c].headers = UndefinedHeaders
                     THEN <<>> ELSE httpRequest[c].headers
            sent == options[c].headers
        IN /\ UserAgentKeysOf(sent) # {}
           /\ UserAgentKeysOf(given) # {} => sent = given
           /\ UserAgentKeysOf(given) = {} =>
                sent = Append(given, [key |-> <<"User-Agent">>,
                                      value |-> settings.defaultUserAgent])
           /\ Cardinality(UserAgentKeysOf(sent)) <= 1

\* The case the code gets wrong: a User-Agent key whose value is empty.
C5_EmptyValueCase ==
    \E c \in Calls :
        /\ Sent(c)
        /\ httpRequest[c].headers = <<[key |-> <<"user-agent">>, value |-> <<>>]>>
        /\ options[c].headers =
              <<[key |-> <<"user-agent">>, value |-> <<>>],
                [key |-> <<"User-Agent">>, value |-> settings.defaultUserAgent]>>

\* What the code does keep: every request whose User-Agent value is not empty
\* is dispatched unchanged, and a request without the key gets the default.
C5_NonEmptyUserAgentKept ==
    \A c \in Calls : Sent(c) =>
        LET given == IF httpRequest[c].headers = UndefinedHeaders
                     THEN <<>> ELSE httpRequest[c].headers
            sent == options[c].headers
        IN /\ UserAgentKeysOf(sent) # {}
           /\ (\E i \in UserAgentKeysOf(given) : given[i].value # <<>>) => sent = given
           /\ UserAgentKeysOf(given) = {} =>
                sent = Append(given, [key |-> <<"User-Agent">>,
                                      value |-> settings.defaultUserAgent])
(***************************************************************************)
(* The transport (the request package and node's http response): what it   *)
(* hands to the handlers of send.                                          *)
(***************************************************************************)
\* node keeps the first of repeated content-type headers and joins the
\* values of other repeated headers with ", "; keys are lowercase.
RECURSIVE TransportHeaders(_)
TransportHeaders(wire) ==
    IF wire = <<>> THEN <<>>
    ELSE LET front == TransportHeaders(SubSeq(wire, 1, Len(wire) - 1))
             name == toLowerCase(wire[Len(wire)].key)
             value == wire[Len(wire)].value
         IN IF ~HasKey(front, name) THEN Put(front, name, value)
            ELSE IF name = <<"content-type">> THEN front
            ELSE Put(front, name, Get(front, name) \o <<", ">> \o value)

\* response.rawHeaders: the names and values as received, alternating.
RECURSIVE TransportRawHeaders(_)
TransportRawHeaders(wire) ==
    IF wire = <<>> THEN <<>>
    ELSE TransportRawHeaders(SubSeq(wire, 1, Len(wire) - 1))
            \o <<wire[Len(wire)].key, wire[Len(wire)].value>>

TransportResponse(wire, body) ==
    [body |-> body,
     headers |-> TransportHeaders(wire),
     rawHeaders |-> TransportRawHeaders(wire),
     statusCode |-> 200]

\* iconv.decode(buffer, encoding) throws for an encoding it does not know
\* and decodes with every encoding it knows, utf8 among them.
KnownEncodings == {<<"utf8">>, <<"UTF-8">>, <<"latin1">>}

iconvDecode(buffer, encoding) ==
    IF encoding \in KnownEncodings
    THEN [threw |-> FALSE, value |-> [bytes |-> buffer, charset |-> encoding, text |-> TRUE]]
    ELSE [threw |-> TRUE, value |-> Null]

\* A body still in its raw bytes.
RawBody(buffer) == [bytes |-> buffer, charset |-> Null, text |-> FALSE]

\* MimeUtility.parse(contentType).charset: the charset parameter, if present.
mimeCharset(contentType) ==
    IF \E i \in 1..(Len(contentType) - 1) : contentType[i] = "charset="
    THEN <<contentType[(CHOOSE i \in 1..(Len(contentType) - 1) :
                            contentType[i] = "charset=") + 1]>>
    ELSE Null

(***************************************************************************)
(* The completion callback of send (lines 83-146).                         *)
(***************************************************************************)
HeaderTokenError == <<"Header name must be", " a valid HTTP Token">>
HeaderFormatExplanation ==
    <<"Header must be in 'header name: header value' format, ",
      "please also make sure there is a blank line between headers and body">>

\* rewriteMessage with includes() in the place of startsWith().
rewriteMessageIncludes(message) ==
    IF Truthy(message)
    THEN IF \E i \in 0..Len(message) : startsWith(substrFrom(message, i), HeaderTokenError)
         THEN HeaderFormatExplanation
         ELSE message
    ELSE message

\* lines 85-90: error.message after the callback's rewrite
rewriteMessage(message) ==
    IF Truthy(message)
    THEN IF startsWith(message, HeaderTokenError)
         THEN HeaderFormatExplanation
         ELSE message
    ELSE message

\* lines 95-103: the charset to decode with
responseEncoding(headers) ==
    LET contentType == getHeaderValue(headers, <<"Content-Type">>)
        encoding == IF Truthy(contentType) THEN mimeCharset(contentType) ELSE Null
    IN IF ~Truthy(encoding) THEN <<"utf8">> ELSE encoding

\* decodeBody whose catch block does nothing.
decodeBodyNoFallback(body, encoding) ==
    LET first == iconvDecode(body, encoding)
    IN IF ~first.threw THEN [threw |-> FALSE, value |-> first.value]
       ELSE [threw |-> FALSE, value |-> RawBody(body)]

\* lines 105-113: the body after the try/catch; threw when the decoding in
\* the catch block throws in its turn.
decodeBody(body, encoding) ==
    LET first == iconvDecode(body, encoding)
    IN IF ~first.threw THEN [threw |-> FALSE, value |-> first.value]
       ELSE IF encoding # <<"utf8">>
            THEN iconvDecode(body, <<"utf8">>)
            ELSE [threw |-> FALSE, value |-> RawBody(body)]

\* HttpClient.getResponseRawHeaderNames
RECURSIVE getResponseRawHeaderNames(_)
getResponseRawHeaderNames(rawHeaders) ==
    IF rawHeaders = <<>> THEN <<>>
    ELSE LET header == rawHeaders[Len(rawHeaders)]
         IN Put(getResponseRawHeaderNames(SubSeq(rawHeaders, 1, Len(rawHeaders) - 1)),
                toLowerCase(header), header)

\* adjustHeaders that also keeps each lowercase key.
RECURSIVE adjustHeadersKeepLowercase(_, _, _)
adjustHeadersKeepLowercase(headers, headersDic, n) ==
    IF n = 0 THEN <<>>
    ELSE LET adjusted == adjustHeadersKeepLowercase(headers, headersDic, n - 1)
             header == headers[n].key
             kept == Put(adjusted, header, headers[n].value)
         IN IF Truthy(Get(headersDic, header))
            THEN Put(kept, Get(headersDic, header), headers[n].value)
            ELSE kept

\* lines 117-125: adjustedResponseHeaders after the first n keys of
\* response.headers
RECURSIVE adjustHeaders(_, _, _)
adjustHeaders(headers, headersDic, n) ==
    IF n = 0 THEN <<>>
    ELSE LET adjusted == adjustHeaders(headers, headersDic, n - 1)
             header == headers[n].key
             restored == Truthy(Get(headersDic, header))
             adjustedHeaderName == IF restored THEN Get(headersDic, header) ELSE header
             inner == IF restored
                      THEN Put(adjusted, Get(headersDic, header), headers[n].value)
                      ELSE adjusted
         IN Put(inner, adjustedHeaderName, headers[n].value)

\* new HttpResponse(...) of lines 127-145, without the fields that are
\* copied from the transport's response as they are.
HttpResponse(statusCode, headers, body, requestUrl, bodySizeInBytes, headersSizeInBytes, bodyStream) ==
    [body |-> body,
     bodySizeInBytes |-> bodySizeInBytes,
     bodyStream |-> bodyStream,
     headers |-> headers,
     headersSizeInBytes |-> headersSizeInBytes,
     kind |-> "response",
     requestUrl |-> requestUrl,
     statusCode |-> statusCode]

\* resolve(value) of the promise send returns: only the first settles it.
Resolve(c, value) ==
    /\ settled' = [settled EXCEPT ![c] = @ + 1]
    /\ IF pc[c] = "pending"
       THEN pc' = [pc EXCEPT ![c] = "resolved"] /\ result' = [result EXCEPT ![c] = value]
       ELSE UNCHANGED <<pc, result>>

\* reject(error) of the promise send returns.
Reject(c, error) ==
    /\ settled' = [settled EXCEPT ![c] = @ + 1]
    /\ IF pc[c] = "pending"
       THEN pc' = [pc EXCEPT ![c] = "rejected"] /\ result' = [result EXCEPT ![c] = error]
       ELSE UNCHANGED <<pc, result>>

Completed(c) == completion[c].called

\* The callback with an error that, in the place of rejecting, sends the
\* request once more.
callbackErrorRetrying(c, error) ==
    /\ dispatched[c] <= MaxCalls
    /\ Dispatch(c)
    /\ completion' = [completion EXCEPT ![c] = NoCompletion]
    /\ UNCHANGED <<pc, result, settled>>

\* lines 84-93: the callback called with an error
callbackError(c, error) ==
    /\ Reject(c, [id |-> error.id, kind |-> "error",
                  message |-> rewriteMessage(error.message)])
    /\ completion' = [completion EXCEPT ![c] =
                         [called |-> TRUE, error |-> error, response |-> NoResponse]]
    /\ UNCHANGED dispatched

\* lines 95-145: the callback called with a response
callbackResponse(c, response) ==
    LET decoded == decodeBody(response.body, responseEncoding(response.headers))
        headersDic == getResponseRawHeaderNames(response.rawHeaders)
    IN /\ IF decoded.threw
          THEN UNCHANGED <<pc, result, settled>>
          ELSE Resolve(c, HttpResponse(response.statusCode,
                                       adjustHeaders(response.headers, headersDic,
                                                     Len(response.headers)),
                                       decoded.value,
                                       httpRequest[c].url,
                                       size[SizeSlot(c)],
                                       headersSize[c],
                                       response.body))
       /\ completion' = [completion EXCEPT ![c] =
                            [called |-> TRUE, error |-> NoError, response |-> response]]

\* The transport completes a call with an error: request calls back once.
CompleteError(c, error) ==
    /\ dispatched[c] > 0
    /\ ~Completed(c)
    /\ callbackError(c, error)
    /\ UNCHANGED <<settings, httpRequest, options, bypass, size, headersSize,
                   delivered, events, curlArgs, curlRequest>>

\* The transport completes a call with its response.
CompleteResponse(c, response) ==
    /\ dispatched[c] > 0
    /\ ~Completed(c)
    /\ events[c].response \in {NoResponse, response}
    /\ callbackResponse(c, response)
    /\ UNCHANGED <<settings, httpRequest, options, bypass, size, headersSize,
                   dispatched, delivered, events, curlArgs, curlRequest>>
(***************************************************************************)
(* The 'data' and 'response' handlers of send (lines 147-155).             *)
(***************************************************************************)
\* The length of a string: that of its symbols together.
RECURSIVE length(_)
length(s) == IF s = <<>> THEN 0 ELSE Len(Head(s)) + length(Tail(s))

\* line 152: rawHeaders.map(h => h.length).reduce((a, b) => a + b, 0)
RECURSIVE sumOfLengths(_)
sumOfLengths(rawHeaders) ==
    IF rawHeaders = <<>> THEN 0
    ELSE length(Head(rawHeaders)) + sumOfLengths(Tail(rawHeaders))

\* lines 147-149: a chunk of the body arrives (request calls back after the
\* last event of a call)
Data(c, dataLength) ==
    /\ dispatched[c] > 0
    /\ ~Completed(c)
    /\ events[c].n < MaxEvents
    /\ size' = [size EXCEPT ![SizeSlot(c)] = @ + dataLength]
    /\ delivered' = [delivered EXCEPT ![c] = @ + dataLength]
    /\ events' = [events EXCEPT ![c].n = @ + 1]
    /\ UNCHANGED <<settings, pc, httpRequest, options, bypass, headersSize,
                   dispatched, completion, settled, result, curlArgs, curlRequest>>

\* lines 150-155: the response's head arrives (rawHeaders holds names and
\* values, so its length is even)
ResponseEvent(c, response) ==
    /\ dispatched[c] > 0
    /\ events[c].n < MaxEvents
    /\ ~Completed(c)
    /\ events[c].response = NoResponse
    /\ headersSize' = [headersSize EXCEPT ![c] =
          IF response.rawHeaders # UndefinedList
          THEN @ + sumOfLengths(response.rawHeaders) + (Len(response.rawHeaders) \div 2)
          ELSE @]
    /\ events' = [events EXCEPT ![c] = [n |-> @.n + 1, response |-> response]]
    /\ UNCHANGED <<settings, pc, httpRequest, options, bypass, size, delivered,
                   dispatched, completion, settled, result, curlArgs, curlRequest>>

(***************************************************************************)
(* SpecResponse: one send, completed by every small response and error.    *)
(***************************************************************************)
ContentTypes ==
    {<<"text/plain">>,
     <<"text/plain", ";", "charset=", "utf8">>,
     <<"text/plain", ";", "charset=", "UTF-8">>,
     <<"text/plain", ";", "charset=", "latin1">>,
     <<"text/plain", ";", "charset=", "bogus">>}

WireHeaders ==
    [key : {<<"Content-Type">>}, value : ContentTypes]
    \cup [key : {<<"X-Custom-Id">>, <<"x-custom-id">>, <<"X-CUSTOM-ID">>},
          value : {<<"42">>, <<"x-custom-id">>}]

Responses == {TransportResponse(w, <<"bytes">>) : w \in SeqsUpTo(WireHeaders, MaxHeaders)}

ErrorSymbols == {"Header name must be", " a valid HTTP Token", "ETIMEDOUT"}
Errors == [id : {"e1", "e2"}, message : {Null} \cup SeqsUpTo(ErrorSymbols, MaxMsgLen)]

InitResponse == InitWith({DefaultSettings})

NextResponse ==
    \/ Send(1, PlainRequest)
    \/ ~Completed(1) /\ \E response \in Responses : CompleteResponse(1, response)
    \/ ~Completed(1) /\ \E error \in Errors : CompleteError(1, error)

SpecResponse == InitResponse /\ [][NextResponse]_vars
(***************************************************************************)
(* C3, C4, C7: what the completion callback settles the promise with.      *)
(***************************************************************************)
Succeeded(c) == Completed(c) /\ completion[c].error = NoError
Failed(c) == Completed(c) /\ completion[c].error # NoError

\* The positions of the raw header list that hold a string whose lowercase
\* form is k.
RawHits(rawHeaders, k) == {j \in 1..Len(rawHeaders) : toLowerCase(rawHeaders[j]) = k}

\* The header names of the raw header list: its odd positions.
RawNames(rawHeaders) == {rawHeaders[j] : j \in {i \in 1..Len(rawHeaders) : i % 2 = 1}}

DeclaredCharset(response) ==
    LET contentType == Get(response.headers, <<"content-type">>)
    IN IF contentType # Null /\ \E i \in 1..Len(contentType) : contentType[i] = "charset="
       THEN <<contentType[Len(contentType)]>>
       ELSE <<"utf8">>

\* C4: after every successful completion the promise is resolved with a
\* decoded text body of the response's bytes: decoded with the declared
\* charset (utf8 when none is declared), and with utf8 when decoding with the
\* declared charset fails; a decoding failure never rejects the promise nor
\* leaves it pending.
C4_DecodeNeverFails ==
    \A c \in Calls : Succeeded(c) =>
        LET response == completion[c].response
            declared == DeclaredCharset(response)
        IN /\ pc[c] = "resolved"
           /\ result[c].kind = "response"
           /\ result[c].body.text
           /\ result[c].body.bytes = response.body
           /\ result[c].bodyStream = response.body
           /\ result[c].body.charset =
                 IF declared \in KnownEncodings THEN declared ELSE <<"utf8">>

\* C4 witness: a charset iconv does not know, decoded as utf8.
C4_Witness ==
    \E c \in Calls :
        /\ Succeeded(c)
        /\ DeclaredCharset(completion[c].response) = <<"bogus">>
        /\ pc[c] = "resolved"
        /\ result[c].body.text
        /\ result[c].body.charset = <<"utf8">>

\* C7: when the transport completes with an error, the promise is rejected
\* with that same error and no response; the error's message is replaced by
\* the explanation exactly when it begins with "Header name must be a valid
\* HTTP Token", and is otherwise as the transport gave it, an absent message
\* included.
C7_ErrorRejects ==
    \A c \in Calls : Failed(c) =>
        LET error == completion[c].error
            begins == /\ error.message # Null
                      /\ Len(error.message) >= 2
                      /\ error.message[1] = "Header name must be"
                      /\ error.message[2] = " a valid HTTP Token"
        IN /\ pc[c] = "rejected"
           /\ result[c].kind = "error"
           /\ result[c].id = error.id
           /\ begins => result[c].message = HeaderFormatExplanation
           /\ ~begins => result[c].message = error.message

\* C7 witness: a message that holds the text without beginning with it is
\* left as it is.
C7_Witness ==
    \E c \in Calls :
        /\ Failed(c)
        /\ completion[c].error.message =
              <<"ETIMEDOUT", "Header name must be", " a valid HTTP Token">>
        /\ pc[c] = "rejected"
        /\ result[c].message = completion[c].error.message
(***************************************************************************)
(* SpecConc: several send calls in flight on one client, their events in   *)
(* every order.                                                            *)
(***************************************************************************)
ChunkLengths == 1..MaxChunkLen

ConcResponse ==
    TransportResponse(<<[key |-> <<"Content-Type">>, value |-> <<"text/plain">>]>>,
                      <<"bytes">>)

ConcError == [id |-> "e1", message |-> <<"ETIMEDOUT">>]

NextConc ==
    \E c \in Calls :
        \/ Send(c, PlainRequest)
        \/ \E dataLength \in ChunkLengths : Data(c, dataLength)
        \/ ResponseEvent(c, ConcResponse)
        \/ CompleteResponse(c, ConcResponse)
        \/ CompleteError(c, ConcError)

InitConc == InitWith({DefaultSettings})

SpecConc == InitConc /\ [][NextConc]_vars

(***************************************************************************)
(* C9, C10: one outbound call and one settlement per send; a size counter  *)
(* per send.                                                               *)
(***************************************************************************)
\* Each send has issued one outbound call and no more, has settled its
\* promise at most once, and exactly once when the transport has completed:
\* resolved with a response after a response, rejected with the transport's
\* error after an error.
OneCallOneSettlement ==
    \A c \in Calls :
        /\ dispatched[c] = IF Sent(c) THEN 1 ELSE 0
        /\ settled[c] = IF Completed(c) THEN 1 ELSE 0
        /\ ~Sent(c) => pc[c] = "idle" /\ result[c] = NoResult
        /\ (Sent(c) /\ ~Completed(c)) => pc[c] = "pending" /\ result[c] = NoResult
        /\ Succeeded(c) => pc[c] = "resolved" /\ result[c].kind = "response"
        /\ Failed(c) =>
              /\ pc[c] = "rejected"
              /\ result[c].kind = "error"
              /\ result[c].id = completion[c].error.id

\* A settled promise stays as it was settled, whatever arrives later.
SettlementIsFinal ==
    \A c \in Calls :
        pc[c] \in {"resolved", "rejected"} => pc'[c] = pc[c] /\ result'[c] = result[c]

C10_SizePerCall ==
    \A c \in Calls : pc[c] = "resolved" => result[c].bodySizeInBytes = delivered[c]

\* C10 witness: two resolved calls with different sizes.
C10_Witness ==
    /\ pc[1] = "resolved"
    /\ pc[2] = "resolved"
    /\ result[1].bodySizeInBytes = 1
    /\ result[2].bodySizeInBytes = 2 * MaxChunkLen
(***************************************************************************)
(* CurlRequestParser.parseHttpRequest, from yargs' parsedArguments on.     *)
(* yargs gives undefined for a flag that is absent, a string for a flag's  *)
(* value, and a number for a value that reads as one (-d 0).               *)
(***************************************************************************)
\* a || b
Or(a, b) == IF Truthy(a) THEN a ELSE b

\* RequestParserUtil.parseRequestHeaders: each line is name: value.
RECURSIVE parseRequestHeaders(_)
parseRequestHeaders(lines) ==
    IF lines = <<>> THEN <<>>
    ELSE LET line == lines[Len(lines)]
             colon == indexOf(line, ":")
         IN Put(parseRequestHeaders(SubSeq(lines, 1, Len(lines) - 1)),
                substr(line, 0, colon), trim(substrFrom(line, colon + 1)))

\* new Buffer(user).toString('base64')
base64(user) ==
    CASE user = <<"u", ":", "p">> -> <<"dTpw">>
      [] user = <<"admin", ":", "p">> -> <<"YWRtaW46cA==">>
      [] OTHER -> <<"base64(", user, ")">>

\* new HttpRequest(method, url, headers, body, rawBody)
HttpRequest(method, url, headers, body, rawBody) ==
    [body |-> body, headers |-> headers, method |-> method, rawBody |-> rawBody,
     set |-> TRUE, url |-> url]

\* lines 16-20
curlUrl(args) ==
    IF ~Truthy(args.positional)
    THEN Or(Or(Or(args.L, args.location), args.compressed), args.url)
    ELSE args.positional

\* lines 22-35
curlHeaders(args) ==
    LET parsedHeaders == IF args.H.given THEN args.H ELSE args.header
        lines == IF parsedHeaders.array THEN parsedHeaders.lines
                 ELSE <<parsedHeaders.lines>>
        headers == IF parsedHeaders.given THEN parseRequestHeaders(lines) ELSE <<>>
        user == Or(args.u, args.user)
    IN IF Truthy(user)
       THEN Put(headers, <<"Authorization">>, <<"Basic", " ">> \o base64(user))
       ELSE headers

\* line 38
curlBody(args) == Or(Or(args.d, args.data), args.dataBinary)

\* lines 41-44
curlMethod(args) ==
    LET method == Or(args.X, args.request)
    IN IF ~Truthy(method)
       THEN IF Truthy(curlBody(args)) THEN <<"POST">> ELSE <<"GET">>
       ELSE method

parseHttpRequest(args) ==
    /\ curlArgs' = args
    /\ curlRequest' = HttpRequest(curlMethod(args), curlUrl(args), curlHeaders(args),
                                  curlBody(args), curlBody(args))
    /\ UNCHANGED sendVars

(***************************************************************************)
(* SpecCurl: parseHttpRequest under every small set of curl flags.         *)
(***************************************************************************)
NoHeaderFlag == [array |-> FALSE, given |-> FALSE, lines |-> <<>>]
ContentTypeLine == <<"Content-Type", ":", " ", "application/json">>
AcceptLine == <<"Accept", ":", " ", "text/plain">>

HeaderFlags ==
    {NoHeaderFlag,
     [array |-> FALSE, given |-> TRUE, lines |-> ContentTypeLine],
     [array |-> TRUE, given |-> TRUE, lines |-> <<ContentTypeLine, AcceptLine>>]}

BodyFlags == {Null, NumberZero, <<"{a}">>, <<"b=2">>}

CurlArguments ==
    [H : HeaderFlags,
     L : {Null},
     X : {Null, <<"PUT">>},
     compressed : {Null},
     d : BodyFlags,
     data : BodyFlags,
     dataBinary : BodyFlags,
     header : {NoHeaderFlag},
     location : {Null},
     positional : {Null, <<"http", ":", "//host/api">>},
     request : {Null, <<"DELETE">>},
     u : {Null, <<"u", ":", "p">>},
     url : {Null, <<"http", ":", "//other/api">>},
     user : {Null}]

InitCurl == InitWith({DefaultSettings})

\* parseHttpRequest keeps no state: one application per behaviour shows all.
NextCurl == curlRequest = NoCurl /\ \E args \in CurlArguments : parseHttpRequest(args)

SpecCurl == InitCurl /\ [][NextCurl]_vars

(***************************************************************************)
(* C8: body and method of a parsed curl command.                           *)
(***************************************************************************)
Present(v) == v # Null

FirstPresentBody(args) ==
    IF Present(args.d) THEN args.d
    ELSE IF Present(args.data) THEN args.data
    ELSE args.dataBinary

\* C8: the request parseHttpRequest returns has as its body the first present
\* among the -d, --data and --data-binary values; as its method the -X or
\* --request value when one is given, otherwise POST if a body is present and
\* GET if none is; and the same value as body and as raw body.
C8_BodyAndMethod ==
    curlRequest # NoCurl =>
        /\ curlRequest.body = FirstPresentBody(curlArgs)
        /\ Present(curlArgs.X) => curlRequest.method = curlArgs.X
        /\ (~Present(curlArgs.X) /\ Present(curlArgs.request))
              => curlRequest.method = curlArgs.request
        /\ (~Present(curlArgs.X) /\ ~Present(curlArgs.request)) =>
              curlRequest.method =
                 IF Present(FirstPresentBody(curlArgs)) THEN <<"POST">> ELSE <<"GET">>
        /\ curlRequest.rawBody = curlRequest.body

\* The case the code gets wrong: curl -d 0 http://host/api.
C8_ZeroBodyCase ==
    /\ curlRequest # NoCurl
    /\ curlArgs.d = NumberZero
    /\ curlArgs.data = Null
    /\ curlArgs.dataBinary = Null
    /\ curlArgs.X = Null
    /\ curlArgs.request = Null
    /\ curlRequest.body = Null
    /\ curlRequest.method = <<"GET">>

\* What the code computes: the first truthy of the three values (the last of
\* them when none is), and POST exactly for a truthy body.
C8_FirstTruthyBody ==
    curlRequest # NoCurl =>
        /\ curlRequest.body =
              IF Truthy(curlArgs.d) THEN curlArgs.d
              ELSE IF Truthy(curlArgs.data) THEN curlArgs.data
              ELSE curlArgs.dataBinary
        /\ (~Present(curlArgs.X) /\ ~Present(curlArgs.request)) =>
              curlRequest.method =
                 IF Truthy(curlRequest.body) THEN <<"POST">> ELSE <<"GET">>
        /\ curlRequest.rawBody = curlRequest.body

====
